---- MODULE Spec2Model ----
(***************************************************************************)
(* Model of the three MCP services of mysql_mcp_server:                    *)
(*   src/mcp_mysql.py     data-store tools over a per-call connection      *)
(*   src/mcp_math.py      geometric formulas                               *)
(*   src/mcp_geometry.py  drawings                                         *)
(* Each service is a single-worker process; a behaviour of the model is    *)
(* one run of one of the three programs, from main() to the exit of the    *)
(* process. It runs one operation (a tool call or a listing) at a time and *)
(* keeps the data store's connections across operations.                   *)
(***************************************************************************)
EXTENDS Integers, Sequences, FiniteSets, TLC

\* ---------------------------------------------------------------- bounds
\* connections the data store hands out in one run
MaxConns == 2
\* databases the store holds
MaxDbs == 2
\* rows (or affected rows) of one statement
MaxRows == 1
\* requests one run of a service receives
MaxRequests == 3

VARIABLES
    pc,         \* position of the running operation
    req,        \* the operation: [op, svc, name, args]
    params,     \* what the dispatcher handed to the handler
    entered,    \* the handler body has been invoked
    conns,      \* every connection opened so far: [open, closes, users]
    conn,       \* the handler's local `conn`: index into conns, 0 when unbound
    ret,        \* what the operation returned (a list), <<>> before
    exc,        \* the exception the operation raised, NoExc when none
    fault,      \* the last thing the driver did in this operation: [at, o]
    databases,  \* the store's databases, in SHOW DATABASES order
    service,    \* the program this process runs: "mysql", "math" or "geometry"
    proc,       \* the process: [state, code, why]; code is -1 while it runs
    environ,    \* os.environ: the MYSQL_* variables the model varies
    life,       \* the running operation's connect() successes and close() calls
    cursor,     \* the running handler's cursor block: [sent, ev, commits]
    order,      \* requests: [received (count), cur (the one running), responded]
    suspended,  \* operations waiting at an await, innermost last
    last,       \* the latest listing that returned: [op, value, o]
    log         \* what main() and the running operation's get_mysql_connection
                \* logged and printed: [real, shadow], the shadow being the same
                \* run under the other password

vars ==
    <<pc, req, params, entered, conns, conn, ret, exc, fault, databases,
      service, proc, environ, life, cursor, order, suspended, log, last>>

\* ---------------------------------------------------------- python values
\* A value is [t, n, s]: t the type, n the number (int: itself; float:
\* hundredths; pi: hundredths of the multiple of pi), s the characters of a
\* str (one token per element).
PyNone == [t |-> "none", n |-> 0, s |-> <<>>]
PyInt(k) == [t |-> "int", n |-> k, s |-> <<>>]
PyFloat(c) == [t |-> "float", n |-> c, s |-> <<>>]
PyPi(c) == [t |-> "pi", n |-> c, s |-> <<>>]
PyStr(cs) == [t |-> "str", n |-> 0, s |-> cs]
PyList(k) == [t |-> "list", n |-> k, s |-> <<>>]
\* a float the model does not evaluate (sqrt, sin, ...), named by its formula
PyExpr(f, k) == [t |-> "expr", n |-> k, s |-> <<f>>]

NoValue == [none |-> TRUE]
NoExc == [cls |-> "", driver |-> FALSE, msg |-> ""]
Exc(cls, msg) == [cls |-> cls, driver |-> FALSE, msg |-> msg]
\* mysql.connector.Error
DriverError(msg) == [cls |-> "Error", driver |-> TRUE, msg |-> msg]

\* bool(v)
Truthy(v) ==
    CASE v.t = "none" -> FALSE
      [] v.t = "str" -> Len(v.s) > 0
      [] v.t = "list" -> v.n > 0
      [] OTHER -> v.n # 0

\* arguments.get(k, default)
Get(args, k, default) == IF k \in DOMAIN args THEN args[k] ELSE default

\* ------------------------------------------------------- what a step yields
Return(v, close) == [kind |-> "return", value |-> v, exc |-> NoExc, close |-> close]
Raise(e, close) == [kind |-> "raise", value |-> NoValue, exc |-> e, close |-> close]

\* ---------------------------------------------------------------- texts
\* A text is [kind, lit, of]: a literal, str(of), or an f-string lit{of}.
Lit(s) == [kind |-> "literal", lit |-> s, of |-> NoValue]
StrOf(v) == [kind |-> "str", lit |-> "", of |-> v]
FStr(prefix, v) == [kind |-> "fstring", lit |-> prefix, of |-> v]
TextContent(text) == [type |-> "text", text |-> text]

\* the literal messages of the sources (translated; the originals are quoted)
MsgSqlRequired == "sql is required"                        \* SQL查询语句是必需的
MsgDatabaseRequired == "database is required"              \* 数据库名是必需的
MsgDatabaseTableRequired == "database and table are required"   \* 数据库名和表名都是必需的
MsgSearchRequired == "database, table, column and keyword are required" \* 数据库名、表名、字段名和关键字都是必需的
MsgUnknownTool == "unknown tool: "                         \* 未知工具:
MsgUnknownCalc == "unknown calculation type"               \* 未知的计算类型
MsgCalcError == "calculation error: "                      \* 计算出错:
MsgDrawError == "drawing error: "                          \* 绘图出错:
MsgMissingArgs == "missing required arguments"             \* 缺少必要参数

\* ------------------------------------------------------------ data store
\* get_mysql_connection(): o is what connect(**config) and the configuration
\* do: "ok", "Error" (the driver refuses), "Exception" (int() of a malformed
\* MYSQL_PORT raises ValueError in get_db_config).
get_mysql_connection(o) ==
    CASE o = "ok" -> Return(NoValue, FALSE)
      [] o = "Error" -> Raise(DriverError("cannot connect"), FALSE)
      [] OTHER -> Raise(Exc("ValueError", "MYSQL_PORT"), FALSE)

\* connect(**config) when the store accepts: a new connection object, bound
\* by the caller (users counts the operations that bound it)
connect_pooled(cs) ==
    IF cs = <<>>
    THEN [conns |-> <<[open |-> TRUE, closes |-> 0, users |-> 1]>>, conn |-> 1]
    ELSE [conns |-> [cs EXCEPT ![Len(cs)] =
                        [open |-> TRUE, closes |-> @.closes, users |-> @.users + 1]],
          conn |-> Len(cs)]
connect(cs) ==
    [conns |-> Append(cs, [open |-> TRUE, closes |-> 0, users |-> 1]),
     conn |-> Len(cs) + 1]

\* conn.close() on connection i (nothing to close when the name is unbound)
Close(cs, i) ==
    IF i \in 1..Len(cs)
    THEN [cs EXCEPT ![i] = [open |-> FALSE, closes |-> @.closes + 1, users |-> @.users]]
    ELSE cs

\* the `except Error` return, written with an empty data field beside the error
ErrorResultWithData(e) == [status |-> "error", error |-> e.msg, data |-> <<>>]
ErrorResult(e) == [status |-> "error", error |-> e.msg]

\* what the store does with the statements of one handler
\*   o: "ok", "Error" (driver error), "Exception" (any other exception),
\*      "SystemExit" (the SIGINT handler's sys.exit(0) runs in the block)
\*   description: the cursor reports a result set; rows; rowcount
ExecError(ev) ==
    CASE ev.o = "Error" -> DriverError("statement failed")
      [] ev.o = "SystemExit" -> Exc("SystemExit", "0")
      [] OTHER -> Exc("Exception", "unexpected")

\* cursor.fetchall() after SHOW DATABASES: dicts keyed 'Database' under
\* cursor(dictionary=True), 1-tuples otherwise
ShowDatabases(dbs, dictionary) ==
    [i \in 1..Len(dbs) |-> IF dictionary THEN [Database |-> dbs[i]] ELSE <<dbs[i]>>]

\* a statement given to cursor.execute: its text with the values put in it
\* (f-string fields, then %s parameters)
Stmt(text, values) == [text |-> text, values |-> values]
\* the statements a handler's cursor block sends, in order (the back quotes
\* the sources put around each name are left out of the texts)
Statements(name, p) ==
    CASE name = "query_mysql" -> <<Stmt("{sql}", <<p.sql>>)>>
      [] name = "list_databases" -> <<Stmt("SHOW DATABASES", <<>>)>>
      [] name = "list_tables" ->
            <<Stmt("USE {database}", <<p.database>>), Stmt("SHOW TABLES", <<>>)>>
      [] name = "describe_table" ->
            <<Stmt("USE {database}", <<p.database>>),
              Stmt("DESCRIBE {table}", <<p.table>>)>>
      [] name = "search_table" ->
            <<Stmt("USE {database}", <<p.database>>),
              Stmt("SELECT * FROM {table} WHERE {column} LIKE %s LIMIT %s",
                   <<p.table, p.column, p.keyword, p.limit>>)>>
      [] OTHER -> <<Stmt("SHOW DATABASES", <<>>)>>

\* Each handler is given c, the outcome of get_mysql_connection(), and ev,
\* the outcome of its statements (read only when c did not raise); the last
\* field of what it yields says whether conn.close() ran.
query_mysql_always_rows(p, c, ev) ==
    IF c.kind = "raise"
    THEN IF c.exc.driver THEN Return(ErrorResult(c.exc), FALSE)
         ELSE Raise(c.exc, FALSE)
    ELSE CASE ev.o = "ok" -> Return([status |-> "succeed", data |-> ev.rows], TRUE)
           [] ev.o = "Error" -> Return(ErrorResult(ExecError(ev)), TRUE)
           [] OTHER -> Raise(ExecError(ev), TRUE)
query_mysql(p, c, ev) ==
    IF c.kind = "raise"
    THEN IF c.exc.driver THEN Return(ErrorResult(c.exc), FALSE)
         ELSE Raise(c.exc, FALSE)
    ELSE CASE ev.o = "ok" ->
                IF ev.description
                THEN Return([status |-> "succeed", data |-> ev.rows], TRUE)
                ELSE Return([status |-> "succeed", affected_rows |-> ev.rowcount], TRUE)
           [] ev.o = "Error" -> Return(ErrorResult(ExecError(ev)), TRUE)
           [] OTHER -> Raise(ExecError(ev), TRUE)

\* conn.commit() of query_mysql: in the branch without a result set
query_mysql_commits(ev) == ev.o = "ok" /\ ~ev.description

\* list_databases closing in a finally without testing that conn is bound
list_databases_unguarded_finally(p, c, ev) ==
    IF c.kind = "raise"
    THEN IF c.exc.driver THEN Return(ErrorResult(c.exc), TRUE)
         ELSE Raise(c.exc, TRUE)
    ELSE CASE ev.o = "ok" ->
                Return([status |-> "succeed", databases |-> ev.databases], TRUE)
           [] ev.o = "Error" -> Return(ErrorResult(ExecError(ev)), TRUE)
           [] OTHER -> Raise(ExecError(ev), TRUE)
list_databases(p, c, ev) ==
    IF c.kind = "raise"
    THEN IF c.exc.driver THEN Return(ErrorResult(c.exc), FALSE)
         ELSE Raise(c.exc, FALSE)
    ELSE CASE ev.o = "ok" ->
                LET rows == ShowDatabases(ev.databases, TRUE)
                IN Return([status |-> "succeed",
                           databases |-> [i \in 1..Len(rows) |-> rows[i].Database]], TRUE)
           [] ev.o = "Error" -> Return(ErrorResult(ExecError(ev)), FALSE)
           [] OTHER -> Raise(ExecError(ev), FALSE)

list_tables(p, c, ev) ==
    IF c.kind = "raise"
    THEN IF c.exc.driver THEN Return(ErrorResult(c.exc), FALSE)
         ELSE Raise(c.exc, FALSE)
    ELSE CASE ev.o = "ok" ->
                Return([status |-> "succeed", tables |-> ev.rows], TRUE)
           [] ev.o = "Error" -> Return(ErrorResult(ExecError(ev)), FALSE)
           [] OTHER -> Raise(ExecError(ev), FALSE)

\* describe_table without its `except Error` clause
describe_table_uncaught(p, c, ev) ==
    IF c.kind = "raise" THEN Raise(c.exc, FALSE)
    ELSE CASE ev.o = "ok" ->
                Return([status |-> "succeed", structure |-> ev.rows], TRUE)
           [] OTHER -> Raise(ExecError(ev), FALSE)

describe_table(p, c, ev) ==
    IF c.kind = "raise"
    THEN IF c.exc.driver THEN Return(ErrorResult(c.exc), FALSE)
         ELSE Raise(c.exc, FALSE)
    ELSE CASE ev.o = "ok" ->
                Return([status |-> "succeed", structure |-> ev.rows], TRUE)
           [] ev.o = "Error" -> Return(ErrorResult(ExecError(ev)), FALSE)
           [] OTHER -> Raise(ExecError(ev), FALSE)

search_table(p, c, ev) ==
    IF c.kind = "raise"
    THEN IF c.exc.driver THEN Return(ErrorResult(c.exc), FALSE)
         ELSE Raise(c.exc, FALSE)
    ELSE CASE ev.o = "ok" ->
                Return([status |-> "succeed", data |-> ev.rows], TRUE)
           [] ev.o = "Error" -> Return(ErrorResult(ExecError(ev)), FALSE)
           [] OTHER -> Raise(ExecError(ev), FALSE)

\* Resource(uri=f"mysql://{db_name}", name=..., mimeType=..., description=...)
Resource(db_name) ==
    [uri |-> <<"mysql://", db_name>>,
     name |-> <<"database: ", db_name>>,
     mimeType |-> "text/plain",
     description |-> <<"database: ", db_name>>]

\* list_resources re-raising the driver's error instead of returning []
list_resources_reraises(p, c, ev) ==
    IF c.kind = "raise" THEN Raise(c.exc, FALSE)
    ELSE CASE ev.o = "ok" ->
                LET rows == ShowDatabases(ev.databases, FALSE)
                IN Return([i \in 1..Len(rows) |-> Resource(rows[i][1])], FALSE)
           [] OTHER -> Raise(ExecError(ev), FALSE)

\* list_resources of the data-store service: the rows of the probe are
\* tuples, db[0] is the name; the connection is never closed here.
list_resources(p, c, ev) ==
    IF c.kind = "raise"
    THEN IF c.exc.driver THEN Return(<<>>, FALSE)
         ELSE Raise(c.exc, FALSE)
    ELSE CASE ev.o = "ok" ->
                LET rows == ShowDatabases(ev.databases, FALSE)
                IN Return([i \in 1..Len(rows) |-> Resource(rows[i][1])], FALSE)
           [] ev.o = "Error" -> Return(<<>>, FALSE)
           [] OTHER -> Raise(ExecError(ev), FALSE)

\* call_tool of the data-store service up to the handler call: either it
\* answers at once, or it invokes a handler with params.
Reply(text) == [act |-> "reply", ret |-> <<TextContent(text)>>, params |-> NoValue]
Invoke(p) == [act |-> "invoke", ret |-> <<>>, params |-> p]

\* the test written `if sql is None`
MissingOnlyWhenNone(x) == x = PyNone
\* `if not sql`, `if not database`
MissingOne(x) == ~Truthy(x)
\* the check written with `and`: one missing name passes it
MissingDatabaseAndTable(database, table) == ~Truthy(database) /\ ~Truthy(table)
\* `if not database or not table`
MissingDatabaseOrTable(database, table) == ~Truthy(database) \/ ~Truthy(table)
\* `if not all([database, table, column, keyword])`
MissingAny(database, table, column, keyword) ==
    ~(Truthy(database) /\ Truthy(table) /\ Truthy(column) /\ Truthy(keyword))
\* the final else returning an empty list
mysql_unknown_tool_empty(name) == [act |-> "reply", ret |-> <<>>, params |-> NoValue]
\* the final else of call_tool
mysql_unknown_tool(name) ==
    [act |-> "reply", ret |-> <<TextContent(FStr(MsgUnknownTool, [name |-> name]))>>,
     params |-> NoValue]

mysql_call_tool(name, arguments) ==
    CASE name = "query_mysql" ->
            LET sql == Get(arguments, "sql", PyNone)
            IN IF MissingOne(sql) THEN Reply(Lit(MsgSqlRequired))
               ELSE Invoke([sql |-> sql])
      [] name = "list_databases" -> Invoke(NoValue)
      [] name = "list_tables" ->
            LET database == Get(arguments, "database", PyNone)
            IN IF MissingOne(database) THEN Reply(Lit(MsgDatabaseRequired))
               ELSE Invoke([database |-> database])
      [] name = "describe_table" ->
            LET database == Get(arguments, "database", PyNone)
                table == Get(arguments, "table", PyNone)
            IN IF MissingDatabaseOrTable(database, table)
               THEN Reply(Lit(MsgDatabaseTableRequired))
               ELSE Invoke([database |-> database, table |-> table])
      [] name = "search_table" ->
            LET database == Get(arguments, "database", PyNone)
                table == Get(arguments, "table", PyNone)
                column == Get(arguments, "column", PyNone)
                keyword == Get(arguments, "keyword", PyNone)
                limit == Get(arguments, "limit", PyInt(20))
            IN IF MissingAny(database, table, column, keyword)
               THEN Reply(Lit(MsgSearchRequired))
               ELSE Invoke([database |-> database, table |-> table,
                            column |-> column, keyword |-> keyword, limit |-> limit])
      [] OTHER -> mysql_unknown_tool(name)

\* the rest of call_tool: `result = await handler(...)` and the return of
\* [TextContent(type="text", text=str(result))]; nothing is caught here
mysql_call_tool_return(out) ==
    IF out.kind = "raise" THEN out
    ELSE Return(<<TextContent(StrOf(out.value))>>, out.close)

\* the handler a data-store operation runs
Handler(name, p, c, ev) ==
    CASE name = "query_mysql" -> mysql_call_tool_return(query_mysql(p, c, ev))
      [] name = "list_databases" -> mysql_call_tool_return(list_databases(p, c, ev))
      [] name = "list_tables" -> mysql_call_tool_return(list_tables(p, c, ev))
      [] name = "describe_table" -> mysql_call_tool_return(describe_table(p, c, ev))
      [] name = "search_table" -> mysql_call_tool_return(search_table(p, c, ev))
      [] OTHER -> list_resources(p, c, ev)

\* ------------------------------------------------------------------ math
Digits == <<"0", "1", "2", "3", "4", "5", "6", "7", "8", "9">>
IsDigit(ch) == \E i \in 1..Len(Digits) : Digits[i] = ch
DigitVal(ch) == (CHOOSE i \in 1..Len(Digits) : Digits[i] = ch) - 1

RECURSIVE ParseInt(_)
ParseInt(cs) ==
    IF cs = <<>> THEN 0
    ELSE 10 * ParseInt(SubSeq(cs, 1, Len(cs) - 1)) + DigitVal(cs[Len(cs)])

\* the decimal strings float() accepts, as far as the model writes them
IsNumeric(cs) == Len(cs) > 0 /\ \A i \in 1..Len(cs) : IsDigit(cs[i])

\* arguments[k]
Subscript(args, k) ==
    IF k \in DOMAIN args THEN Return(args[k], FALSE)
    ELSE Raise(Exc("KeyError", k), FALSE)

\* float(x), x the outcome of evaluating the argument expression
float(x) ==
    IF x.kind = "raise" THEN x
    ELSE LET v == x.value
         IN CASE v.t = "int" -> Return(PyFloat(100 * v.n), FALSE)
              [] v.t = "float" -> Return(v, FALSE)
              [] v.t = "str" ->
                    IF IsNumeric(v.s) THEN Return(PyFloat(100 * ParseInt(v.s)), FALSE)
                    ELSE Raise(Exc("ValueError", "could not convert string to float"), FALSE)
              [] OTHER -> Raise(Exc("TypeError", "float() argument must be a string or a real number"), FALSE)

\* the first argument expression that raises, 0 when none does
FirstRaise(xs) ==
    IF \E i \in 1..Len(xs) : xs[i].kind = "raise"
    THEN CHOOSE i \in 1..Len(xs) :
            xs[i].kind = "raise" /\ \A j \in 1..(i - 1) : xs[j].kind # "raise"
    ELSE 0

PerimeterSentinel == PyStr(<<"three sides are needed for the perimeter">>) \* 需要提供三边长才能计算周长

calculate_triangle(base, height, a, b, c) ==
    LET area == PyFloat((50 * base.n * height.n) \div 10000)
        perimeter == IF a # PyNone /\ b # PyNone /\ c # PyNone
                     THEN PyFloat(a.n + b.n + c.n)
                     ELSE PyNone
    IN Return([area |-> area,
               perimeter |-> IF Truthy(perimeter) THEN perimeter ELSE PerimeterSentinel],
              FALSE)

calculate_circle(radius) ==
    Return([area |-> PyPi((radius.n * radius.n) \div 100),
            perimeter |-> PyPi(2 * radius.n)], FALSE)

calculate_ellipse(a, b) ==
    IF a.n + b.n = 0 THEN Raise(Exc("ZeroDivisionError", "float division by zero"), FALSE)
    ELSE Return([area |-> PyPi((a.n * b.n) \div 100),
                 perimeter |-> PyExpr("ramanujan", a.n + b.n)], FALSE)

calculate_trapezoid(a, b, h, c, d) ==
    LET area == PyFloat(((a.n + b.n) * h.n) \div 200)
        perimeter == IF Truthy(c) /\ Truthy(d)
                     THEN PyFloat(a.n + b.n + c.n + d.n)
                     ELSE PyExpr("a+b+2*sqrt(h**2+((b-a)/2)**2)", a.n + b.n)
    IN Return([area |-> area, perimeter |-> perimeter], FALSE)

calculate_trig_functions(angle_degrees) ==
    Return([sin |-> PyExpr("sin", angle_degrees.n), cos |-> PyExpr("cos", angle_degrees.n),
            tan |-> PyExpr("tan", angle_degrees.n), cot |-> PyExpr("cot", angle_degrees.n)],
           FALSE)

\* the argument expressions of each branch of call_tool, in evaluation order
math_arguments(name, arguments) ==
    CASE name = "triangle_calc" ->
            <<float(Subscript(arguments, "base")),
              float(Subscript(arguments, "height")),
              float(Return(Get(arguments, "a", PyNone), FALSE)),
              float(Return(Get(arguments, "b", PyNone), FALSE)),
              float(Return(Get(arguments, "c", PyNone), FALSE))>>
      [] name = "circle_calc" -> <<float(Subscript(arguments, "radius"))>>
      [] name = "ellipse_calc" ->
            <<float(Subscript(arguments, "a")), float(Subscript(arguments, "b"))>>
      [] name = "trapezoid_calc" ->
            <<float(Subscript(arguments, "a")),
              float(Subscript(arguments, "b")),
              float(Subscript(arguments, "height")),
              float(Return(Get(arguments, "c", PyNone), FALSE)),
              float(Return(Get(arguments, "d", PyNone), FALSE))>>
      [] name = "trig_functions" -> <<float(Subscript(arguments, "angle"))>>
      [] OTHER -> <<>>

\* call_tool of the math service: [out, entered], out what it yields and
\* entered whether a calculate_* body ran
math_call_tool(name, arguments) ==
    LET xs == math_arguments(name, arguments)
        bad == FirstRaise(xs)
        v == [i \in 1..Len(xs) |-> xs[i].value]
        result ==
            CASE name = "triangle_calc" -> calculate_triangle(v[1], v[2], v[3], v[4], v[5])
              [] name = "circle_calc" -> calculate_circle(v[1])
              [] name = "ellipse_calc" -> calculate_ellipse(v[1], v[2])
              [] name = "trapezoid_calc" -> calculate_trapezoid(v[1], v[2], v[3], v[4], v[5])
              [] name = "trig_functions" -> calculate_trig_functions(v[1])
              [] OTHER -> Return(NoValue, FALSE)
    IN IF bad # 0
       THEN [out |-> Return(<<TextContent(FStr(MsgCalcError, xs[bad].exc))>>, FALSE),
             entered |-> FALSE]
       ELSE IF result.kind = "raise"
       THEN [out |-> Return(<<TextContent(FStr(MsgCalcError, result.exc))>>, FALSE),
             entered |-> TRUE]
       ELSE IF result.value # NoValue
       THEN [out |-> Return(<<TextContent(StrOf(result.value))>>, FALSE),
             entered |-> TRUE]
       ELSE [out |-> Return(<<TextContent(Lit(MsgUnknownCalc))>>, FALSE),
             entered |-> FALSE]

\* -------------------------------------------------------------- geometry
IsNumber(v) == v.t \in {"int", "float", "pi"}

\* save_figure_to_base64(): the picture, named by its title and parameters
Image(title, ps) == [title |-> title, of |-> ps]

TypeErrorNone == Exc("TypeError", "unsupported operand or subscript of NoneType")
\* width/2 of a str
TypeErrorStr == Exc("TypeError", "unsupported operand types for /: str and int")

\* lib is what matplotlib does with a coordinate that is no number:
\* "image" (drawn, the point left out) or "raises"
draw_line(x1, y1, x2, y2, lib) ==
    IF (IsNumber(x1) /\ IsNumber(y1) /\ IsNumber(x2) /\ IsNumber(y2)) \/ lib = "image"
    THEN Return(Image("Line", <<x1, y1, x2, y2>>), FALSE)
    ELSE Raise(Exc("TypeError", "plot"), FALSE)

\* points + [points[0]]
draw_triangle(points) ==
    IF points.t = "list" /\ points.n > 0 THEN Return(Image("Triangle", <<points>>), FALSE)
    ELSE Raise(TypeErrorNone, FALSE)

draw_rectangle(x, y, width, height) ==
    IF IsNumber(x) /\ IsNumber(y) /\ IsNumber(width) /\ IsNumber(height)
    THEN Return(Image("Rectangle", <<x, y, width, height>>), FALSE)
    ELSE Raise(TypeErrorNone, FALSE)

draw_polygon(points) ==
    IF points.t = "list" /\ points.n > 0 THEN Return(Image("Polygon", <<points>>), FALSE)
    ELSE Raise(TypeErrorNone, FALSE)

draw_trapezoid(points) ==
    IF points.t = "list" /\ points.n > 0 THEN Return(Image("Trapezoid", <<points>>), FALSE)
    ELSE Raise(TypeErrorNone, FALSE)

draw_circle(center_x, center_y, radius) ==
    IF IsNumber(center_x) /\ IsNumber(center_y) /\ IsNumber(radius)
    THEN Return(Image("Circle", <<center_x, center_y, radius>>), FALSE)
    ELSE Raise(TypeErrorNone, FALSE)

draw_ellipse(center_x, center_y, width, height) ==
    IF IsNumber(center_x) /\ IsNumber(center_y) /\ IsNumber(width) /\ IsNumber(height)
    THEN Return(Image("Ellipse", <<center_x, center_y, width, height>>), FALSE)
    ELSE IF width.t = "str" \/ height.t = "str" THEN Raise(TypeErrorStr, FALSE)
    ELSE Raise(TypeErrorNone, FALSE)

draw_sin_curve(start_x, end_x) ==
    IF IsNumber(start_x) /\ IsNumber(end_x)
    THEN Return(Image("Sine Curve", <<start_x, end_x>>), FALSE)
    ELSE Raise(TypeErrorNone, FALSE)

draw_cos_curve(start_x, end_x) ==
    IF IsNumber(start_x) /\ IsNumber(end_x)
    THEN Return(Image("Cosine Curve", <<start_x, end_x>>), FALSE)
    ELSE Raise(TypeErrorNone, FALSE)

GeometryTools ==
    {"draw_circle", "draw_line", "draw_triangle", "draw_rectangle", "draw_polygon",
     "draw_trapezoid", "draw_ellipse", "draw_sin_curve", "draw_cos_curve"}

\* what call_tool passes to draw_sin_curve and draw_cos_curve
curve_arguments(arguments) ==
    [start_x |-> Get(arguments, "start_x", PyInt(0)),
     end_x |-> Get(arguments, "end_x", PyPi(200))]
\* the arguments the handler receives, where the model keeps them
geometry_params(name, arguments) ==
    IF name \in {"draw_sin_curve", "draw_cos_curve"} THEN curve_arguments(arguments)
    ELSE NoValue

\* the draw_* call of each branch of call_tool
\* (first a chain whose branches all call draw_sin_curve)
geometry_handler_misrouted(name, arguments, lib) ==
    draw_sin_curve(curve_arguments(arguments).start_x, curve_arguments(arguments).end_x)
geometry_handler(name, arguments, lib) ==
    LET g(k) == Get(arguments, k, PyNone)
    IN CASE name = "draw_circle" ->
                draw_circle(arguments["center_x"], arguments["center_y"], arguments["radius"])
         [] name = "draw_line" -> draw_line(g("x1"), g("y1"), g("x2"), g("y2"), lib)
         [] name = "draw_triangle" -> draw_triangle(g("points"))
         [] name = "draw_rectangle" -> draw_rectangle(g("x"), g("y"), g("width"), g("height"))
         [] name = "draw_polygon" -> draw_polygon(g("points"))
         [] name = "draw_trapezoid" -> draw_trapezoid(g("points"))
         [] name = "draw_ellipse" ->
                draw_ellipse(g("center_x"), g("center_y"), g("width"), g("height"))
         [] name = "draw_sin_curve" ->
                draw_sin_curve(curve_arguments(arguments).start_x,
                               curve_arguments(arguments).end_x)
         [] OTHER ->
                draw_cos_curve(curve_arguments(arguments).start_x,
                               curve_arguments(arguments).end_x)

\* call_tool of the geometry service: [out, entered]
geometry_call_tool(name, arguments, lib) ==
    IF name \notin GeometryTools
    THEN [out |-> Return(<<TextContent(FStr(MsgUnknownTool, [name |-> name]))>>, FALSE),
          entered |-> FALSE]
    ELSE IF name = "draw_circle"
            /\ ~({"center_x", "center_y", "radius"} \subseteq DOMAIN arguments)
    THEN [out |-> Return(<<TextContent(Lit(MsgMissingArgs))>>, FALSE), entered |-> FALSE]
    ELSE LET img == geometry_handler(name, arguments, lib)
             prefix == IF name = "draw_circle" THEN "![circle](data:image/png;base64,"
                       ELSE "data:image/png;base64,"
         IN IF img.kind = "raise"
            THEN [out |-> Return(<<TextContent(FStr(MsgDrawError, img.exc))>>, FALSE),
                  entered |-> TRUE]
            ELSE [out |-> Return(<<TextContent(FStr(prefix, img.value))>>, FALSE),
                  entered |-> TRUE]

\* ------------------------------------------------- the calls a client makes
\* every argument mapping over a schema: a subset of its fields, each with
\* one of the values the client may send for it
ArgsOver(sch) ==
    UNION { { f \in [F -> UNION { sch[k] : k \in DOMAIN sch }] :
                \A k \in F : f[k] \in sch[k] } : F \in SUBSET (DOMAIN sch) }

NoFields == [k \in {} |-> {}]
\* names no call_tool branch handles
UnknownTools == {"no_such_tool", "list_tools"}

MysqlTools ==
    {"query_mysql", "list_databases", "list_tables", "describe_table", "search_table"}
StrVals == {PyStr(<<>>), PyStr(<<"d">>)}
ReqVals == StrVals \cup {PyNone, PyInt(0)}
\* statement texts: one that reads, one that changes the store
SqlVals == {PyStr(<<"SELECT 1">>), PyStr(<<"DROP TABLE t">>)}
MysqlArgs(name) ==
    CASE name = "query_mysql" -> ArgsOver([sql |-> ReqVals \cup SqlVals])
      [] name = "list_tables" -> ArgsOver([database |-> ReqVals])
      [] name = "describe_table" -> ArgsOver([database |-> ReqVals, table |-> ReqVals])
      [] name = "search_table" ->
            ArgsOver([database |-> StrVals, table |-> StrVals, column |-> StrVals,
                      keyword |-> ReqVals, limit |-> {PyInt(5)}])
      [] OTHER -> ArgsOver(NoFields)
\* the fields each tool's inputSchema lists under "required"
MysqlRequired(name) ==
    CASE name = "query_mysql" -> {"sql"}
      [] name = "list_tables" -> {"database"}
      [] name = "describe_table" -> {"database", "table"}
      [] name = "search_table" -> {"database", "table", "column", "keyword"}
      [] OTHER -> {}

MathTools ==
    {"triangle_calc", "circle_calc", "ellipse_calc", "trapezoid_calc", "trig_functions"}
NumVals == {PyInt(3), PyInt(4), PyStr(<<"7">>), PyStr(<<"x">>), PyNone}
SideVals == {PyInt(5), PyInt(0)}
MathArgs(name) ==
    CASE name = "triangle_calc" ->
            ArgsOver([base |-> NumVals, height |-> NumVals,
                      a |-> SideVals, b |-> SideVals, c |-> SideVals])
      [] name = "circle_calc" -> ArgsOver([radius |-> NumVals])
      [] name = "ellipse_calc" ->
            ArgsOver([a |-> {PyInt(3), PyInt(0), PyStr(<<"x">>)},
                      b |-> {PyInt(3), PyInt(0), PyStr(<<"x">>)}])
      [] name = "trapezoid_calc" ->
            ArgsOver([a |-> {PyInt(3), PyInt(4)}, b |-> {PyInt(3), PyInt(4)},
                      height |-> {PyInt(3), PyInt(4)}, c |-> SideVals, d |-> SideVals])
      [] name = "trig_functions" -> ArgsOver([angle |-> NumVals])
      [] OTHER -> ArgsOver(NoFields)
MathRequired(name) ==
    CASE name = "triangle_calc" -> {"base", "height"}
      [] name = "circle_calc" -> {"radius"}
      [] name = "ellipse_calc" -> {"a", "b"}
      [] name = "trapezoid_calc" -> {"a", "b", "height"}
      [] name = "trig_functions" -> {"angle"}
      [] OTHER -> {}

GeometryArgs(name) ==
    CASE name = "draw_line" ->
            ArgsOver([x1 |-> {PyInt(1)}, y1 |-> {PyInt(1)}, x2 |-> {PyInt(1)}, y2 |-> {PyInt(1)}])
      [] name \in {"draw_triangle", "draw_polygon", "draw_trapezoid"} ->
            ArgsOver([points |-> {PyList(3)}])
      [] name = "draw_rectangle" ->
            ArgsOver([x |-> {PyInt(1)}, y |-> {PyInt(1)},
                      width |-> {PyInt(1)}, height |-> {PyInt(1)}])
      [] name = "draw_circle" ->
            ArgsOver([center_x |-> {PyInt(1), PyNone}, center_y |-> {PyInt(1), PyNone},
                      radius |-> {PyInt(1), PyNone}])
      [] name = "draw_ellipse" ->
            ArgsOver([center_x |-> {PyInt(1)}, center_y |-> {PyInt(1)},
                      width |-> {PyInt(1), PyStr(<<"4">>)}, height |-> {PyInt(1)}])
      [] name \in {"draw_sin_curve", "draw_cos_curve"} ->
            ArgsOver([start_x |-> {PyInt(1)}, end_x |-> {PyInt(1)}])
      [] OTHER -> ArgsOver(NoFields)
GeometryRequired(name) ==
    CASE name = "draw_line" -> {"x1", "y1", "x2", "y2"}
      [] name \in {"draw_triangle", "draw_polygon", "draw_trapezoid"} -> {"points"}
      [] name = "draw_rectangle" -> {"x", "y", "width", "height"}
      [] name = "draw_circle" -> {"center_x", "center_y", "radius"}
      [] name = "draw_ellipse" -> {"center_x", "center_y", "width", "height"}
      [] OTHER -> {}

\* ------------------------------------------------------------- the store
AllDbNames == <<"information_schema", "ai_content_db", "mysql", "sys">>
DbNames == { AllDbNames[i] : i \in 1..MaxDbs }
\* the listings SHOW DATABASES may give: no name twice
DbLists ==
    UNION { { q \in [1..k -> DbNames] : \A i, j \in 1..k : i # j => q[i] # q[j] } :
            k \in 0..MaxDbs }
RowSets == { [i \in 1..k |-> i] : k \in 0..MaxRows }
\* what the store may do with a handler's statements: a result set has
\* rows and no count the handlers read, a statement without one has a count
\* and no rows, and a statement that fails has neither
Events ==
    { ev \in [o : {"ok", "Error", "Exception"}, description : BOOLEAN, rows : RowSets,
              rowcount : 0..MaxRows, databases : {databases}] :
        /\ ev.description => ev.rowcount = 0
        /\ ~ev.description => ev.rows = <<>>
        /\ ev.o # "ok" => (~ev.description /\ ev.rowcount = 0) }
NoEvent ==
    [o |-> "ok", description |-> FALSE, rows |-> <<>>, rowcount |-> 0, databases |-> <<>>]

\* ---------------------------------------------------------- the listings
\* list_tools(): the names of the Tool descriptors, in the order of the list
list_tools_counting(svc) == <<order.received>>
list_tools(svc) ==
    CASE svc = "mysql" ->
            <<"query_mysql", "list_databases", "list_tables", "describe_table",
              "search_table">>
      [] svc = "math" ->
            <<"triangle_calc", "circle_calc", "ellipse_calc", "trapezoid_calc",
              "trig_functions">>
      [] OTHER ->
            <<"draw_line", "draw_triangle", "draw_rectangle", "draw_polygon",
              "draw_trapezoid", "draw_circle", "draw_ellipse", "draw_sin_curve",
              "draw_cos_curve">>

\* list_resources() of the math and geometry services: one fixed Resource
static_list_resources(svc) ==
    IF svc = "math"
    THEN <<[uri |-> <<"math://formulas">>, name |-> <<"math formula service">>,
            mimeType |-> "application/json",
            description |-> <<"areas, perimeters and trigonometric functions">>]>>
    ELSE <<[uri |-> <<"geometry://shapes">>, name |-> <<"geometry drawing">>,
            mimeType |-> "image/png",
            description |-> <<"lines, triangles, rectangles, ..., curves">>]>>

\* ------------------------------------------------------------ the process
Services == {"mysql", "math", "geometry"}
\* MYSQL_PORT and MYSQL_PASSWORD as the environment may set them; the other
\* MYSQL_* variables stay at their defaults
Ports == {<<"3", "3", "0", "6">>, <<"a", "b", "c">>}
Passwords == {"123456", "hunter2"}
Environments == [MYSQL_PORT : Ports, MYSQL_PASSWORD : Passwords]
DefaultEnvironment ==
    [MYSQL_PORT |-> <<"3", "3", "0", "6">>, MYSQL_PASSWORD |-> "123456"]

\* int(s) of a str
int(cs) ==
    IF IsNumeric(cs) THEN Return(PyInt(ParseInt(cs)), FALSE)
    ELSE Raise(Exc("ValueError", "invalid literal for int()"), FALSE)

\* get_db_config(): the connect() arguments, or the ValueError of int()
get_db_config(env) ==
    LET port == int(env.MYSQL_PORT)
    IN IF port.kind = "raise" THEN port
       ELSE Return([host |-> "localhost", port |-> port.value, user |-> "root",
                    password |-> env.MYSQL_PASSWORD, database |-> "ai_content_db",
                    charset |-> "utf8mb4"], FALSE)

\* safe_config of get_db_config: the copy it logs
unsafe_config(config) == config
safe_config(config) == [config EXCEPT !.password = "******"]

\* the lines get_db_config() logs (none when int() raised first)
get_db_config_log(env) ==
    LET cfg == get_db_config(env)
    IN IF cfg.kind = "raise" THEN <<>>
       ELSE <<<<"MySQL config: ", safe_config(cfg.value)>>>>     \* MySQL配置:

\* the lines get_mysql_connection() logs when its connect does o
get_mysql_connection_log(env, o) ==
    LET cfg == get_db_config(env)
    IN IF cfg.kind = "raise" THEN <<>>
       ELSE get_db_config_log(env)
            \o <<<<"connecting to MySQL: ", cfg.value.host, cfg.value.port>>>>
            \o (IF o = "ok" THEN <<<<"connected, server version: ", "8.0">>>>
                ELSE <<<<"connect failed: ", "cannot connect">>,
                       <<"errno, sqlstate: ", "2003", "HY000">>>>)

\* the lines of main()'s test connection
main_test_log(env, o) ==
    get_mysql_connection_log(env, o)
    \o (IF o = "ok" THEN <<<<"connection test passed, server version: ", "8.0">>>>
        ELSE <<<<"connection test failed: ",
                 IF o = "Error" THEN "cannot connect" ELSE "invalid literal for int()">>>>)

\* the test connection of main() without its conn.close()
main_test_connection_unclosed(cs, o) ==
    IF get_mysql_connection(o).kind = "return" THEN connect(cs).conns ELSE cs
\* the test connection of main(), lines 388-395: conn = get_mysql_connection(),
\* the log line, conn.close(); `except Exception` logs and goes on
main_test_connection(cs, o) ==
    IF get_mysql_connection(o).kind = "return"
    THEN LET k == connect(cs) IN Close(k.conns, k.conn)
    ELSE cs

\* the banner main() prints to stderr, or the failure it logs
main_banner(env) ==
    LET cfg == get_db_config(env)
    IN IF cfg.kind = "raise"
       THEN <<<<"MCP service failed to start: ", cfg.exc.msg>>>>
       ELSE get_db_config_log(env)
            \o <<<<"Host: ", cfg.value.host>>, <<"Port: ", cfg.value.port>>,
                 <<"User: ", cfg.value.user>>, <<"Database: ", cfg.value.database>>,
                 <<"Charset: ", cfg.value.charset>>>>

\* the same environment under the other password
Shadow(env) ==
    [env EXCEPT !.MYSQL_PASSWORD = CHOOSE q \in Passwords : q # env.MYSQL_PASSWORD]
NoLog == [real |-> <<>>, shadow |-> <<>>]

\* what get_mysql_connection() can do under env: get_db_config() raises, or
\* connect(**config) succeeds or is refused by the driver
ConnectOutcomes(env) ==
    IF get_db_config(env).kind = "raise" THEN {"Exception"} ELSE {"ok", "Error"}

\* signal_handler(sig, frame): sys.exit(0)
signal_handler(sig) == Exc("SystemExit", "0")
\* SIGINT at position at: KeyboardInterrupt until main() has registered
\* signal_handler, its SystemExit afterwards
Interrupt(at) ==
    IF at \in {"test_connection", "run"} THEN Exc("KeyboardInterrupt", "")
    ELSE signal_handler("SIGINT")

\* the __main__ block: the exit code of the process when asyncio.run(main())
\* raises e
ExitCodeAlwaysFailure(e) == 1
ExitCode(e) ==
    CASE e.cls = "KeyboardInterrupt" -> 0
      [] e.cls = "SystemExit" -> 0
      [] OTHER -> 1

Running(state) == [state |-> state, code |-> -1, why |-> ""]
Exited(e, why) == [state |-> "exited", code |-> ExitCode(e), why |-> why]

\* ------------------------------------------------------------ the machine
NoFault == [at |-> "", o |-> ""]
NoReq == [op |-> "", svc |-> "", name |-> "", args |-> NoFields]
NoLife == [opened |-> 0, closed |-> 0]
NoCursor == [sent |-> <<>>, ev |-> NoEvent, commits |-> 0]
NoLast == [op |-> "", value |-> <<>>, o |-> ""]

\* whether handler `name` reaches a suspension point between its first
\* statement and its return: the handlers are coroutines without any await,
\* and the driver calls block
YieldsAlways(name) == TRUE
Yields(name) == FALSE

\* request ids are 1, 2, ... in the order of reception
Received(o) == [o EXCEPT !.received = @ + 1, !.cur = o.received + 1]
Responded(o) == [o EXCEPT !.responded = Append(@, o.cur)]
\* the server loop may start the next request when no operation runs or the
\* running one is suspended
CanBegin ==
    /\ order.received < MaxRequests
    /\ \/ pc = "idle"
       \/ pc \in {"connect", "execute"} /\ Yields(req.name)
Context ==
    [pc |-> pc, req |-> req, params |-> params, entered |-> entered, conn |-> conn,
     fault |-> fault, life |-> life, cursor |-> cursor, id |-> order.cur]
IdleContext ==
    [pc |-> "idle", req |-> NoReq, params |-> NoValue, entered |-> FALSE, conn |-> 0,
     fault |-> NoFault, life |-> NoLife, cursor |-> NoCursor, id |-> 0]
Suspend == IF pc = "idle" THEN suspended ELSE Append(suspended, Context)
Resumed == IF suspended = <<>> THEN IdleContext ELSE suspended[Len(suspended)]

Init ==
    /\ service \in Services
    \* only the data-store service reads the MYSQL_* variables and the store
    /\ environ \in (IF service = "mysql" THEN Environments ELSE {DefaultEnvironment})
    /\ proc = Running("starting")
    /\ pc = IF service = "mysql" THEN "test_connection" ELSE "run"
    /\ req = NoReq
    /\ params = NoValue
    /\ entered = FALSE
    /\ conns = <<>>
    /\ conn = 0
    /\ ret = <<>>
    /\ exc = NoExc
    /\ fault = NoFault
    /\ life = NoLife
    /\ cursor = NoCursor
    /\ order = [received |-> 0, cur |-> 0, responded |-> <<>>]
    /\ suspended = <<>>
    /\ log = NoLog
    /\ last = NoLast
    /\ databases \in (IF service = "mysql" THEN DbLists ELSE {<<>>})

\* the operation ends: what it returns or raises, and the close it ran
Complete(out) ==
    /\ conns' = IF out.close THEN Close(conns, conn) ELSE conns
    /\ life' = IF out.close THEN [life EXCEPT !.closed = @ + 1] ELSE life
    /\ pc' = IF out.kind = "raise" THEN "raised" ELSE "returned"
    /\ ret' = IF out.kind = "raise" THEN <<>> ELSE out.value
    /\ exc' = out.exc

\* main() of the data-store service, lines 388-395: the test connection is
\* opened and closed; any exception is logged and main() goes on
MainTestConnection ==
    /\ service = "mysql"
    /\ pc = "test_connection"
    /\ \E o \in ConnectOutcomes(environ) :
          /\ conns' = main_test_connection(conns, o)
          /\ log' = [real |-> log.real \o main_test_log(environ, o),
                     shadow |-> log.shadow \o main_test_log(Shadow(environ), o)]
    /\ pc' = "run"
    /\ UNCHANGED <<req, params, entered, conn, ret, exc, fault, databases,
                   service, proc, environ, life, cursor, order, suspended, last>>

\* the rest of main(): get_db_config() for the banner (data store only),
\* then stdio_server() and app.run(); t is whether the transport comes up.
\* An exception goes through main() to the __main__ block.
MainRun ==
    /\ pc = "run"
    /\ \E t \in {"ok", "fails"} :
          LET cfg == IF service = "mysql" THEN get_db_config(environ)
                     ELSE Return(NoValue, FALSE)
              e == IF cfg.kind = "raise" THEN cfg.exc
                   ELSE IF t = "fails" THEN Exc("Exception", "stdio_server")
                   ELSE NoExc
          IN IF e = NoExc
             THEN /\ pc' = "idle"
                  /\ proc' = Running("serving")
                  /\ UNCHANGED exc
             ELSE /\ pc' = "exited"
                  /\ proc' = Exited(e, "failure")
                  /\ exc' = e
    /\ log' = IF service = "mysql"
              THEN [real |-> log.real \o main_banner(environ),
                    shadow |-> log.shadow \o main_banner(Shadow(environ))]
              ELSE log
    /\ UNCHANGED <<req, params, entered, conns, conn, ret, fault, databases,
                   service, environ, life, cursor, order, suspended, last>>

\* SIGINT arrives. Inside a data-store handler the exception unwinds the
\* handler (its finally runs, its except clauses do not match); the process
\* exits through the __main__ block. (A signal after the operation's return
\* is the signal of the idle loop: Finish comes first.)
Sigint ==
    /\ pc \in {"test_connection", "run", "idle", "connect", "execute"}
    /\ LET e == Interrupt(pc)
           out == IF pc = "execute"
                  THEN Handler(req.name, params, Return(NoValue, FALSE),
                               [NoEvent EXCEPT !.o = e.cls])
                  ELSE IF pc = "connect"
                  THEN Handler(req.name, params, Raise(e, FALSE), NoEvent)
                  ELSE Raise(e, FALSE)
       IN /\ conns' = IF out.close THEN Close(conns, conn) ELSE conns
          /\ life' = IF out.close THEN [life EXCEPT !.closed = @ + 1] ELSE life
          /\ exc' = out.exc
          /\ proc' = Exited(out.exc, "sigint")
    /\ pc' = "exited"
    \* the frames of the process are gone with it
    /\ req' = NoReq
    /\ params' = NoValue
    /\ entered' = FALSE
    /\ conn' = 0
    /\ ret' = <<>>
    /\ fault' = NoFault
    /\ cursor' = NoCursor
    /\ suspended' = <<>>
    /\ log' = NoLog
    /\ last' = NoLast
    /\ UNCHANGED <<databases, service, environ, order>>

\* call_tool of the data-store service, up to the handler's first statement
MysqlCallTool ==
    /\ service = "mysql"
    /\ CanBegin
    /\ \E name \in MysqlTools \cup UnknownTools : \E arguments \in MysqlArgs(name) :
          LET d == mysql_call_tool(name, arguments)
          IN /\ d.act = "invoke" => Len(conns) < MaxConns
             /\ req' = [op |-> "call_tool", svc |-> "mysql", name |-> name, args |-> arguments]
             /\ params' = d.params
             /\ entered' = (d.act = "invoke")
             /\ pc' = IF d.act = "invoke" THEN "connect" ELSE "returned"
             /\ ret' = d.ret
             /\ order' = IF d.act = "invoke" THEN Received(order)
                         ELSE Responded(Received(order))
    /\ conn' = 0
    /\ exc' = NoExc
    /\ fault' = NoFault
    /\ life' = NoLife
    /\ cursor' = NoCursor
    /\ suspended' = Suspend
    /\ UNCHANGED <<conns, databases, service, proc, environ, log, last>>

\* list_resources of the data-store service, up to get_mysql_connection()
MysqlListResources ==
    /\ service = "mysql"
    /\ CanBegin
    /\ Len(conns) < MaxConns
    /\ req' = [op |-> "list_resources", svc |-> "mysql", name |-> "list_resources",
               args |-> NoFields]
    /\ params' = NoValue
    /\ entered' = TRUE
    /\ pc' = "connect"
    /\ order' = Received(order)
    /\ conn' = 0
    /\ ret' = <<>>
    /\ exc' = NoExc
    /\ fault' = NoFault
    /\ life' = NoLife
    /\ cursor' = NoCursor
    /\ suspended' = Suspend
    /\ UNCHANGED <<conns, databases, service, proc, environ, log, last>>

\* conn = get_mysql_connection() in the running handler
GetMysqlConnection ==
    /\ pc = "connect"
    /\ \E o \in ConnectOutcomes(environ) :
          LET c == get_mysql_connection(o)
          IN /\ fault' = [at |-> "connect", o |-> o]
             /\ log' = [real |-> log.real \o get_mysql_connection_log(environ, o),
                        shadow |-> log.shadow
                                   \o get_mysql_connection_log(Shadow(environ), o)]
             /\ IF c.kind = "return"
                THEN /\ conns' = connect(conns).conns
                     /\ conn' = connect(conns).conn
                     /\ life' = [life EXCEPT !.opened = @ + 1]
                     /\ pc' = "execute"
                     /\ UNCHANGED <<ret, exc, order>>
                ELSE /\ Complete(Handler(req.name, params, c, NoEvent))
                     /\ order' = Responded(order)
                     /\ UNCHANGED conn
    /\ UNCHANGED <<req, params, entered, databases, service, proc, environ, cursor, suspended, last>>

\* the cursor block of the running handler, through to its return
RunStatements ==
    /\ pc = "execute"
    /\ \E ev \in Events :
          /\ fault' = [at |-> "execute", o |-> ev.o]
          /\ cursor' = [sent |-> Statements(req.name, params), ev |-> ev,
                        commits |-> IF req.name = "query_mysql" /\ query_mysql_commits(ev)
                                    THEN 1 ELSE 0]
          /\ Complete(Handler(req.name, params, Return(NoValue, FALSE), ev))
    /\ order' = Responded(order)
    /\ UNCHANGED <<req, params, entered, conn, databases, service, proc, environ, suspended, log, last>>

\* list_tools() of the running service
ListTools ==
    /\ pc = "idle"
    /\ order.received < MaxRequests
    /\ req' = [op |-> "list_tools", svc |-> service, name |-> "list_tools",
               args |-> NoFields]
    /\ ret' = list_tools(service)
    /\ pc' = "returned"
    /\ order' = Responded(Received(order))
    /\ UNCHANGED <<params, entered, conns, conn, exc, fault, databases, service, proc,
                   environ, life, cursor, suspended, log, last>>

\* list_resources() of the math or geometry service
StaticListResources ==
    /\ service \in {"math", "geometry"}
    /\ pc = "idle"
    /\ order.received < MaxRequests
    /\ req' = [op |-> "list_resources", svc |-> service, name |-> "list_resources",
               args |-> NoFields]
    /\ ret' = static_list_resources(service)
    /\ pc' = "returned"
    /\ order' = Responded(Received(order))
    /\ UNCHANGED <<params, entered, conns, conn, exc, fault, databases, service, proc,
                   environ, life, cursor, suspended, log, last>>

MathCallTool ==
    /\ service = "math"
    /\ pc = "idle"
    /\ order.received < MaxRequests
    /\ \E name \in MathTools \cup UnknownTools : \E arguments \in MathArgs(name) :
          LET r == math_call_tool(name, arguments)
          IN /\ req' = [op |-> "call_tool", svc |-> "math", name |-> name, args |-> arguments]
             /\ entered' = r.entered
             /\ Complete(r.out)
    /\ params' = NoValue
    /\ order' = Responded(Received(order))
    /\ UNCHANGED <<conn, fault, databases, service, proc, environ, cursor, suspended, log, last>>

GeometryCallTool ==
    /\ service = "geometry"
    /\ pc = "idle"
    /\ order.received < MaxRequests
    /\ \E name \in GeometryTools \cup UnknownTools : \E arguments \in GeometryArgs(name) :
        \E lib \in {"image", "raises"} :
          LET r == geometry_call_tool(name, arguments, lib)
          IN /\ req' = [op |-> "call_tool", svc |-> "geometry", name |-> name,
                        args |-> arguments]
             /\ entered' = r.entered
             /\ params' = geometry_params(name, arguments)
             /\ Complete(r.out)
    /\ order' = Responded(Received(order))
    /\ UNCHANGED <<conn, fault, databases, service, proc, environ, cursor, suspended, log, last>>

\* the result has gone back to the server loop, which resumes the operation
\* suspended last, or awaits the next request
Finish ==
    /\ pc \in {"returned", "raised"}
    /\ pc' = Resumed.pc
    /\ req' = Resumed.req
    /\ params' = Resumed.params
    /\ entered' = Resumed.entered
    /\ conn' = Resumed.conn
    /\ ret' = <<>>
    /\ exc' = NoExc
    /\ fault' = Resumed.fault
    /\ life' = Resumed.life
    /\ cursor' = Resumed.cursor
    /\ order' = [order EXCEPT !.cur = Resumed.id]
    /\ suspended' = IF suspended = <<>> THEN <<>>
                    ELSE SubSeq(suspended, 1, Len(suspended) - 1)
    /\ log' = NoLog
    /\ last' = IF pc = "returned" /\ req.op \in {"list_tools", "list_resources"}
               THEN [op |-> req.op, value |-> ret, o |-> fault.o]
               ELSE last
    /\ UNCHANGED <<conns, databases, service, proc, environ>>

Next ==
    \/ MainTestConnection
    \/ MainRun
    \/ Sigint
    \/ MysqlCallTool
    \/ MysqlListResources
    \/ GetMysqlConnection
    \/ RunStatements
    \/ ListTools
    \/ StaticListResources
    \/ MathCallTool
    \/ GeometryCallTool
    \/ Finish

Spec == Init /\ [][Next]_vars

\* ------------------------------------------------------------ properties
\* the inputSchema properties list_tools declares with "type": "number" (or
\* "integer")
NumericFields(svc, name) ==
    CASE svc = "math" /\ name = "triangle_calc" -> {"base", "height", "a", "b", "c"}
      [] svc = "math" /\ name = "circle_calc" -> {"radius"}
      [] svc = "math" /\ name = "ellipse_calc" -> {"a", "b"}
      [] svc = "math" /\ name = "trapezoid_calc" -> {"a", "b", "height", "c", "d"}
      [] svc = "math" /\ name = "trig_functions" -> {"angle"}
      [] svc = "geometry" /\ name = "draw_line" -> {"x1", "y1", "x2", "y2"}
      [] svc = "geometry" /\ name = "draw_rectangle" -> {"x", "y", "width", "height"}
      [] svc = "geometry" /\ name = "draw_circle" -> {"center_x", "center_y", "radius"}
      [] svc = "geometry" /\ name = "draw_ellipse" ->
            {"center_x", "center_y", "width", "height"}
      [] svc = "geometry" /\ name \in {"draw_sin_curve", "draw_cos_curve"} ->
            {"start_x", "end_x"}
      [] svc = "mysql" /\ name = "search_table" -> {"limit"}
      [] OTHER -> {}
\* the numeric fields of the running call that hold a str
StringFields ==
    { k \in NumericFields(req.svc, req.name) \cap DOMAIN req.args : req.args[k].t = "str" }
\* the call's arguments with every convertible str replaced by its number
Coerced(args) ==
    [k \in DOMAIN args |->
        IF args[k].t = "str" /\ IsNumeric(args[k].s) THEN PyInt(ParseInt(args[k].s))
        ELSE args[k]]
\* what the service answers to the running call's arguments as numbers
AnswerToNumbers(lib) ==
    IF req.svc = "math" THEN math_call_tool(req.name, Coerced(req.args)).out.value
    ELSE geometry_call_tool(req.name, Coerced(req.args), lib).out.value

\* the "default" entries of the inputSchema properties list_tools declares
SchemaDefaults(svc, name) ==
    CASE svc = "mysql" /\ name = "search_table" -> [limit |-> PyInt(20)]
      [] svc = "geometry" /\ name \in {"draw_sin_curve", "draw_cos_curve"} ->
            [start_x |-> PyInt(0), end_x |-> PyFloat(628)]
      [] OTHER -> NoFields
Done == pc \in {"returned", "raised"}
IsToolCall(svc) == req.op = "call_tool" /\ req.svc = svc
Required ==
    CASE req.svc = "mysql" -> MysqlRequired(req.name)
      [] req.svc = "math" -> MathRequired(req.name)
      [] req.svc = "geometry" -> GeometryRequired(req.name)
      [] OTHER -> {}
OmitsRequired == req.op = "call_tool" /\ ~(Required \subseteq DOMAIN req.args)
Handled ==
    CASE req.svc = "mysql" -> MysqlTools
      [] req.svc = "math" -> MathTools
      [] req.svc = "geometry" -> GeometryTools
      [] OTHER -> {}
OneTextEnvelope == pc = "returned" /\ Len(ret) = 1 /\ ret[1].type = "text"
MissingMessages ==
    {MsgSqlRequired, MsgDatabaseRequired, MsgDatabaseTableRequired, MsgSearchRequired}

\* C1: when a data-store tool call has ended, by a return or by an
\* exception, the connection its handler opened is closed.
C1_ToolCallClosesItsConnection ==
    (Done /\ IsToolCall("mysql") /\ conn # 0) => ~conns[conn].open

\* C2: a data-store tool call that omits a required field is answered with
\* the tool's required-parameter text and never reaches
\* get_mysql_connection: it is never at the connect or execute step, no
\* handler is entered and no connection is bound.
C2_MissingFieldOpensNoConnection ==
    (IsToolCall("mysql") /\ OmitsRequired) =>
        /\ OneTextEnvelope
        /\ ret[1].text.kind = "literal"
        /\ ret[1].text.lit \in MissingMessages
        /\ ~entered
        /\ conn = 0
        /\ fault = NoFault
C2_Witness ==
    /\ IsToolCall("mysql")
    /\ req.name = "describe_table"
    /\ DOMAIN req.args = {"database"}
    /\ Truthy(req.args["database"])
    /\ pc = "returned"

\* C3: call_tool never raises, in any of the three services.
C3_CallToolNeverRaises == req.op = "call_tool" => pc # "raised"

\* C4: a driver error at connect or at a statement makes the data-store
\* handler return {status: "error", error: <message>}, which call_tool
\* returns as text; the error does not propagate.
C4_DriverErrorBecomesErrorResult ==
    (Done /\ IsToolCall("mysql") /\ fault.o = "Error") =>
        /\ OneTextEnvelope
        /\ ret[1].text.kind = "str"
        /\ DOMAIN ret[1].text.of = {"status", "error"}
        /\ ret[1].text.of.status = "error"
        /\ ret[1].text.of.error =
               (IF fault.at = "connect" THEN "cannot connect" ELSE "statement failed")
C4_Witness ==
    /\ Done /\ IsToolCall("mysql")
    /\ req.name = "describe_table"
    /\ fault = [at |-> "execute", o |-> "Error"]

\* C5: a tool name no branch handles is answered with one text envelope
\* reporting an unknown tool; nothing is raised, no handler runs and no
\* connection is opened.
C5_UnknownToolIsReported ==
    (req.op = "call_tool" /\ req.name \notin Handled) =>
        /\ OneTextEnvelope
        /\ \/ ret[1].text.kind = "fstring" /\ ret[1].text.lit = MsgUnknownTool
                 /\ ret[1].text.of = [name |-> req.name]
           \/ ret[1].text.kind = "literal" /\ ret[1].text.lit = MsgUnknownCalc
        /\ ~entered
        /\ conn = 0
        /\ fault = NoFault
C5_Witness ==
    /\ IsToolCall("mysql") /\ req.name \notin MysqlTools /\ pc = "returned"

\* C6: a call that omits a schema-required field never enters the handler
\* body and is answered with one text envelope.
C6_MissingFieldNeverExecutes ==
    OmitsRequired => (~entered /\ (Done => OneTextEnvelope))

\* C7: triangle_calc with integer base and height and no sides returns the
\* text of {area: base*height/2, perimeter: the sentinel}.
C7_TriangleWithoutSides ==
    (Done /\ IsToolCall("math") /\ req.name = "triangle_calc"
          /\ DOMAIN req.args = {"base", "height"}
          /\ req.args["base"].t = "int" /\ req.args["height"].t = "int") =>
        /\ OneTextEnvelope
        /\ ret[1].text.kind = "str"
        /\ ret[1].text.of =
               [area |-> PyFloat((100 * req.args["base"].n * req.args["height"].n) \div 2),
                perimeter |-> PerimeterSentinel]

\* C8: every tool call that has ended left exactly one text envelope.
C8_ExactlyOneEnvelope ==
    (Done /\ req.op = "call_tool") => (Len(ret) = 1 /\ ret[1].type = "text")

\* C9: when list_resources of the data-store service has ended, the
\* connection it opened for the probe is closed.
C9_ListResourcesClosesItsConnection ==
    (Done /\ req.op = "list_resources" /\ conn # 0) => ~conns[conn].open

C11_OneFreshConnectionPerCall ==
    /\ \A i \in 1..Len(conns) : conns[i].users = 1
    /\ (Done /\ IsToolCall("mysql") /\ entered) =>
          /\ life.opened = (IF fault.at = "connect" THEN 0 ELSE 1)
          /\ life.opened = 1 => conn = Len(conns)
          /\ life.opened = 0 => conn = 0
C11_Witness ==
    /\ Done /\ IsToolCall("mysql") /\ entered
    /\ life.opened = 1
    /\ conn = 2
    /\ conns[1].open

\* C12: when the process has exited on an interrupt signal, whatever the
\* signal interrupted, no connection is left open.
C12_InterruptLeavesNoConnectionOpen ==
    (proc.state = "exited" /\ proc.why = "sigint") =>
        \A i \in 1..Len(conns) : ~conns[i].open

\* C13: query_mysql sends the statement text exactly as the caller gave it,
\* whatever it is; when the statement succeeds the result is
\* {status: "succeed", data: rows} exactly when the cursor reports a result
\* set, and otherwise {status: "succeed", affected_rows: rowcount} after one
\* commit.
C13_QueryMysqlExecutesAsGiven ==
    (IsToolCall("mysql") /\ req.name = "query_mysql") =>
        /\ ("sql" \in DOMAIN req.args /\ Truthy(req.args["sql"])) => entered
        /\ (Done /\ fault = [at |-> "execute", o |-> "ok"]) =>
              /\ cursor.sent = <<Stmt("{sql}", <<req.args["sql"]>>)>>
              /\ OneTextEnvelope
              /\ ret[1].text.kind = "str"
              /\ cursor.ev.description =>
                    /\ ret[1].text.of = [status |-> "succeed", data |-> cursor.ev.rows]
                    /\ cursor.commits = 0
              /\ ~cursor.ev.description =>
                    /\ ret[1].text.of =
                           [status |-> "succeed", affected_rows |-> cursor.ev.rowcount]
                    /\ cursor.commits = 1
C13_Witness ==
    /\ Done /\ IsToolCall("mysql") /\ req.name = "query_mysql"
    /\ fault = [at |-> "execute", o |-> "ok"]
    /\ req.args["sql"] = PyStr(<<"DROP TABLE t">>)
    /\ ~cursor.ev.description
    /\ cursor.ev.rowcount = MaxRows
    /\ cursor.commits = 1

\* C14: responses are produced in the order the requests were received: the
\* k-th response answers the k-th request, and at most one request is
\* unanswered at any time (an operation runs to its return before the next
\* request is taken up).
C14_ResponsesInRequestOrder ==
    /\ \A i \in 1..Len(order.responded) : order.responded[i] = i
    /\ proc.state = "serving" =>
          Len(order.responded) = order.received - (IF Done \/ pc = "idle" THEN 0 ELSE 1)
C14_Witness ==
    /\ service = "mysql"
    /\ Done /\ req.op = "call_tool" /\ entered
    /\ order.responded = <<1, 2, 3>>
    /\ conn = 2

\* C15: a handler entered without an optional field that has a declared
\* default is given the default its tool's schema declares: limit = 20 for
\* search_table, start_x = 0 and end_x = 6.28 for the two curve tools.
C15_AbsentFieldGetsSchemaDefault ==
    (req.op = "call_tool" /\ entered /\ params # NoValue) =>
        \A k \in DOMAIN SchemaDefaults(req.svc, req.name) :
            k \notin DOMAIN req.args => params[k] = SchemaDefaults(req.svc, req.name)[k]

\* C16: everything get_db_config, get_mysql_connection and main log or print
\* is the same under two configurations that differ only in the password
\* (the driver doing the same for both): the password is in none of it.
C16_PasswordNeverLogged == log.real = log.shadow
C16_Witness ==
    /\ pc = "execute"
    /\ environ.MYSQL_PASSWORD = "hunter2"
    /\ \E i \in 1..Len(log.real) :
          /\ log.real[i][1] = "MySQL config: "
          /\ log.real[i][2].password = "******"

\* C17: a call of the math or geometry service with a str in a numeric
\* field is answered as the same call with the number when every such str
\* is convertible, and otherwise, without entering the handler, with a text
\* that names the offending field.
C17_NumericStringsAreCoerced ==
    (Done /\ req.op = "call_tool" /\ req.svc \in {"math", "geometry"}
          /\ StringFields # {}) =>
        IF \A k \in StringFields : IsNumeric(req.args[k].s)
        THEN /\ pc = "returned"
             /\ \E lib \in {"image", "raises"} : ret = AnswerToNumbers(lib)
        ELSE /\ OneTextEnvelope
             /\ ~entered
             /\ "msg" \in DOMAIN ret[1].text.of
             /\ ret[1].text.of.msg \in StringFields

\* C18: a process that has exited did so on an interrupt signal, with exit
\* code 0, or on a failure of start-up before any request, with exit code 1;
\* a tool call that has ended, whatever its outcome, leaves the process
\* serving.
C18_ExitCodes ==
    /\ proc.state = "exited" =>
          /\ proc.why \in {"sigint", "failure"}
          /\ proc.why = "sigint" => proc.code = 0
          /\ proc.why = "failure" => (proc.code = 1 /\ order.received = 0)
    /\ Done => (proc.state = "serving" /\ proc.code = -1)
C18_Witness ==
    /\ proc = [state |-> "exited", code |-> 0, why |-> "sigint"]
    /\ exc.cls = "SystemExit"
    /\ order.responded = <<1>>
    /\ order.received = 2

C20_NoDoubleClose ==
    /\ \A i \in 1..Len(conns) : conns[i].closes <= 1
    /\ life.closed <= 1
    /\ life.opened = 0 => life.closed = 0
C20_Witness ==
    /\ Done /\ IsToolCall("mysql") /\ req.name = "query_mysql"
    /\ fault = [at |-> "connect", o |-> "Error"]
    /\ life = NoLife
    /\ \E i \in 1..Len(conns) : conns[i].closes = 1

\* the fields a successful result carries its payload in
DataFields == {"data", "affected_rows", "databases", "tables", "structure"}
\* the payload field(s) each handler's success returns
HandlerDataFields(name) ==
    CASE name = "query_mysql" -> {"data", "affected_rows"}
      [] name = "list_databases" -> {"databases"}
      [] name = "list_tables" -> {"tables"}
      [] name = "describe_table" -> {"structure"}
      [] name = "search_table" -> {"data"}
      [] OTHER -> {}

\* C21: every value a data-store handler returned (call_tool passes it on as
\* str(result)) has status "succeed" or "error"; it has an error field
\* exactly when the status is "error", and exactly one data field (data,
\* affected_rows, databases, tables or structure, one its handler produces)
\* exactly when the status is "succeed"; it has no other field.
C21_UniformOperationResult ==
    (IsToolCall("mysql") /\ entered /\ pc = "returned") =>
        /\ Len(ret) = 1
        /\ ret[1].text.kind = "str"
        /\ LET result == ret[1].text.of
               fields == DOMAIN result \ {"status"}
           IN /\ "status" \in DOMAIN result
              /\ result.status \in {"succeed", "error"}
              /\ ("error" \in fields) <=> (result.status = "error")
              /\ (fields \cap DataFields # {}) <=> (result.status = "succeed")
              /\ Cardinality(fields) = 1
              /\ result.status = "succeed" => fields \subseteq HandlerDataFields(req.name)
C21_Witness ==
    /\ IsToolCall("mysql") /\ entered /\ pc = "returned"
    /\ req.name = "list_tables"
    /\ fault = [at |-> "execute", o |-> "ok"]
    /\ DOMAIN ret[1].text.of = {"status", "tables"}
    /\ Len(ret[1].text.of.tables) = MaxRows

\* C22: trapezoid_calc with integers a, b and height and without c and d
\* returns the text of a computed mapping whose area is (a+b)*height/2.
C22_TrapezoidWithoutSides ==
    (Done /\ IsToolCall("math") /\ req.name = "trapezoid_calc"
          /\ DOMAIN req.args = {"a", "b", "height"}) =>
        /\ OneTextEnvelope
        /\ ret[1].text.kind = "str"
        /\ "area" \in DOMAIN ret[1].text.of
        /\ ret[1].text.of.area =
               PyFloat((100 * (req.args["a"].n + req.args["b"].n)
                            * req.args["height"].n) \div 2)

\* the names list_tools of the running service returns
Listed == { list_tools(service)[i] : i \in 1..Len(list_tools(service)) }
\* the answer each dispatcher gives in its final else
UnknownToolAnswer ==
    /\ OneTextEnvelope
    /\ \/ ret[1].text.kind = "fstring" /\ ret[1].text.lit = MsgUnknownTool
       \/ ret[1].text.kind = "literal" /\ ret[1].text.lit = MsgUnknownCalc
\* what tells the handlers' results apart: the title of a drawing, the keys
\* of a computed mapping
OwnTitle(name) ==
    CASE name = "draw_line" -> "Line"
      [] name = "draw_triangle" -> "Triangle"
      [] name = "draw_rectangle" -> "Rectangle"
      [] name = "draw_polygon" -> "Polygon"
      [] name = "draw_trapezoid" -> "Trapezoid"
      [] name = "draw_circle" -> "Circle"
      [] name = "draw_ellipse" -> "Ellipse"
      [] name = "draw_sin_curve" -> "Sine Curve"
      [] name = "draw_cos_curve" -> "Cosine Curve"
      [] OTHER -> ""
OwnKeys(name) ==
    IF name = "trig_functions" THEN {"sin", "cos", "tan", "cot"} ELSE {"area", "perimeter"}
\* the result in the envelope is one the named tool's own handler produces
OwnResult ==
    LET text == ret[1].text
    IN CASE req.svc = "mysql" ->
                text.kind = "str"
                /\ DOMAIN text.of \ {"status", "error"} \subseteq HandlerDataFields(req.name)
         [] req.svc = "math" ->
                text.kind = "str" => DOMAIN text.of = OwnKeys(req.name)
         [] OTHER ->
                text.lit # MsgDrawError => text.of.title = OwnTitle(req.name)

\* C23: in each service a tool call that has ended was answered with the
\* unknown-tool text exactly when its name is not among the names list_tools
\* returns; a call of a listed name is never answered so, and the result of
\* a handler that was entered and returned is one of the named tool's own
\* handler. (Every listed name is among the names the clients call.)
C23_RegistryAndDispatcherAgree ==
    /\ Listed \subseteq (CASE service = "mysql" -> MysqlTools
                           [] service = "math" -> MathTools
                           [] OTHER -> GeometryTools)
    /\ (Done /\ req.op = "call_tool") =>
          /\ req.name \notin Listed => (UnknownToolAnswer /\ ~entered)
          /\ req.name \in Listed =>
                /\ ~UnknownToolAnswer
                /\ (entered /\ pc = "returned") => OwnResult
C23_Witness ==
    /\ Done /\ IsToolCall("geometry") /\ entered
    /\ req.name = "draw_cos_curve"
    /\ req.name \in Listed
    /\ ret[1].text.lit # MsgDrawError
    /\ ret[1].text.of.title = "Cosine Curve"

\* the text each branch of the data-store call_tool returns when its test of
\* the required arguments fails
RequiredMessage(name) ==
    CASE name = "query_mysql" -> MsgSqlRequired
      [] name = "list_tables" -> MsgDatabaseRequired
      [] name = "describe_table" -> MsgDatabaseTableRequired
      [] name = "search_table" -> MsgSearchRequired
      [] OTHER -> ""
\* the required fields of the running call that are present and falsy
FalsyRequired == { k \in Required \cap DOMAIN req.args : ~Truthy(req.args[k]) }
\* the running call's arguments without them
WithoutFalsy == [k \in DOMAIN req.args \ FalsyRequired |-> req.args[k]]

\* C24: a data-store tool call with a required argument that is present but
\* falsy ("", 0, None) is answered as the same call without that argument:
\* with the tool's required-parameter text, no handler entered, no
\* connection opened. A handler is entered only when every required
\* argument is present and truthy.
C24_FalsyRequiredIsMissing ==
    (IsToolCall("mysql") /\ req.name \in MysqlTools) =>
        /\ FalsyRequired # {} =>
              /\ OneTextEnvelope
              /\ ret = mysql_call_tool(req.name, WithoutFalsy).ret
              /\ ret[1].text = Lit(RequiredMessage(req.name))
              /\ ~entered
              /\ conn = 0 /\ life = NoLife /\ fault = NoFault
        /\ entered => (Required \subseteq DOMAIN req.args /\ FalsyRequired = {})
C24_Witness ==
    /\ IsToolCall("mysql") /\ req.name = "search_table"
    /\ pc = "returned"
    /\ DOMAIN req.args = {"database", "table", "column", "keyword", "limit"}
    /\ FalsyRequired = {"keyword"}
    /\ req.args["keyword"] = PyInt(0)
    /\ ret[1].text = Lit(MsgSearchRequired)

\* what main() logged about its test connection
TestPassed ==
    \E i \in 1..Len(log.real) :
        log.real[i][1] = "connection test passed, server version: "
TestFailed ==
    \E i \in 1..Len(log.real) : log.real[i][1] = "connection test failed: "
\* the data-store service has begun to serve and has taken no request yet
BeginsServing == service = "mysql" /\ proc.state = "serving" /\ order.received = 0

\* C25: the test connection of main(), failed or not, leaves main() running;
\* start-up fails only when the configuration cannot be read or the
\* transport does not come up, so a refused test connection is followed by
\* serving; and the service begins to serve with no connection open: none
\* was opened when the test failed, and the one opened when it passed has
\* been closed once.
C25_TestConnectionAtStartup ==
    /\ (service = "mysql" /\ pc = "run") =>
          (proc = Running("starting") /\ (TestPassed \/ TestFailed))
    /\ (service = "mysql" /\ proc.state = "exited" /\ proc.why = "failure") =>
          \/ get_db_config(environ).kind = "raise" /\ exc = get_db_config(environ).exc
          \/ exc = Exc("Exception", "stdio_server")
    /\ BeginsServing =>
          /\ \A i \in 1..Len(conns) : ~conns[i].open
          /\ TestPassed \/ TestFailed
          /\ TestFailed => conns = <<>>
          /\ TestPassed => (Len(conns) = 1 /\ conns[1].closes = 1)
C25_Witness ==
    /\ BeginsServing
    /\ pc = "idle"
    /\ TestFailed
    /\ conns = <<>>

====
